---------------------------- MODULE Spec2Model ----------------------------
(***************************************************************************)
(* Meeting-transcription / minutes generator (Fathima1123/MOM).            *)
(*                                                                         *)
(* The parts of the repository modelled here:                              *)
(*   - create_transcript (src/src/utils.py, src/src/app.py): the loop that *)
(*     groups diarized words into "SPEAKER n:" lines        (SpecSegment;  *)
(*     SpecSegmentAny for word records that lack a key)                    *)
(*   - the live transcription handlers: DeepgramLiveTranscriber and its    *)
(*     TranscriptCollector (src/src/deepgram_live.py) and the standalone   *)
(*     script's handler (src/live_speech.py)                (Spec;         *)
(*     SpecCollector for the collectors alone, SpecSessions for several    *)
(*     process_audio calls on one transcriber)                             *)
(*   - the entry points that call an external service, with the retry     *)
(*     loop of MoMGenerator.generate_mom                    (SpecCalls)    *)
(*   - API keys, client construction and the _mom_generator global         *)
(*                                                          (SpecProcess)  *)
(*   - the two create_transcript functions side by side    (SpecCompare)   *)
(*   - the Streamlit application: login and one "Generate MoM" run         *)
(*     (src/src/app.py)                                     (SpecApp)      *)
(*   - AudioRecorder and its worker thread                                 *)
(*     (src/src/audio_recorder.py)                          (SpecRecorder) *)
(*                                                                         *)
(* A Python string is modelled as a sequence of atoms: the atom " " is one *)
(* space character, "\n" one newline, and every other atom is a run of     *)
(* non-whitespace characters (a word, a tag).  Concatenation is \o.        *)
(***************************************************************************)
EXTENDS Integers, Sequences, FiniteSets, TLC

VARIABLES
    \* ---- create_transcript ----
    words,                  \* response[...]["words"]: the input word list
    seg_pc,                 \* "idle" | "loop" | "done" | "raised"
    idx,                    \* position of the for loop in words (next word)
    lines,                  \* the local list `lines`
    curr_speaker,           \* the local `curr_speaker`
    curr_line,              \* the local `curr_line`
    result,                 \* the returned string
    seg_error,              \* the exception create_transcript raised, NoError if none
    \* ---- live transcription ----
    program,                \* "none" | "transcriber" | "standalone" | "collector"
    transcript_parts,       \* TranscriptCollector.transcript_parts (deepgram_live.py)
    callback,               \* DeepgramLiveTranscriber.callback: "None" | "cb"
    transcription_complete, \* the asyncio.Event: "None" | "clear" | "set"
    pa_pc,                  \* process_audio: "idle" | "waiting" | "done"
    conn_open,              \* connection.start() done and connection.finish() not yet
    audio_on,               \* audio_source.start() done and audio_source.stop() not yet
    send_function,          \* AudioRecorder.send_function: "None" | "connection.send"
    session,                \* number of process_audio calls made on the transcriber
    collector_parts,        \* live_speech.py: collector.transcript_parts
    sa_pc,                  \* live_speech.py main: "idle" | "running" |
                            \*   "interrupted" | "failed" (in the finally block) | "ended"
    files,                  \* live_speech.py: the contents of the files written
    stop_requested,         \* stop() was called and no session has ended since
    history,                \* every result handed to a handler so far, with its outcome
    emitted,                \* the texts the callback was invoked with, in order
    \* ---- calls to the external services ----
    entry,                  \* the entry point that is running, "none" if none
    transcript_in,          \* its text argument (transcript, text or audio)
    language,               \* its language argument
    max_retries,            \* MoMGenerator.generate_mom: the max_retries argument
    prompt,                 \* the local `prompt`: the request text, built once
    attempt,                \* MoMGenerator.generate_mom: the loop variable
    call_pc,                \* "idle" | "loop" | "returned" | "raised"
    attempts,               \* the requests sent so far, each with its outcome
    outcome,                \* what the entry point returned or raised
    \* ---- the process: environment and module globals ----
    env,                    \* which API keys os.getenv finds
    mom_generator,          \* mom_generator.py: the global _mom_generator
    instances,              \* MoMGenerator instances constructed so far
    ops,                    \* the constructors and entry points run so far
    \* ---- the two create_transcript functions side by side ----
    response,               \* the argument given to both
    utils_out,              \* what utils.py create_transcript returned or raised
    app_out,                \* what app.py create_transcript returned or raised
    \* ---- the Streamlit application, one browser session ----
    authenticated,          \* st.session_state["authenticated"]: "absent" | "False" | "True"
    login,                  \* the username and password of the last Login click
    app_mode,               \* the mode radio button
    app_language,           \* the language select box
    app_pc,                 \* "idle" between script runs, else the next step of a
                            \*   "Generate MoM" run
    app_calls,              \* the external calls of the current "Generate MoM" run
    app_response,           \* main: the local `response`
    app_transcript,         \* main: the local `transcript`
    app_mom,                \* main: the local `mom`
    \* ---- AudioRecorder and its worker thread ----
    recording,              \* AudioRecorder.recording
    rec_send_function,      \* AudioRecorder.send_function: "None" | "f"
    worker_pc,              \* _process_audio_frames: "test" | "get" | "handle" |
                            \*   "check" | "call" | "exited"
    batch,                  \* the frames get_frames returned, not yet handled
    delivered,              \* number of frames the receiver has handed out
    audio_queue,            \* the frames whose chunk was put on audio_queue
    sent,                   \* the frames whose chunk was passed to the send function
    stop_pc                 \* the thread calling stop(): "idle" | "joining"

seg_vars  == <<words, seg_pc, idx, lines, curr_speaker, curr_line, result, seg_error>>
live_vars == <<program, transcript_parts, callback, transcription_complete, pa_pc,
               conn_open, audio_on, send_function, session, collector_parts, sa_pc,
               stop_requested,
               files, history, emitted>>
call_vars == <<entry, transcript_in, language, max_retries, prompt, attempt, call_pc,
               attempts, outcome>>
proc_vars == <<env, mom_generator, instances, ops>>
cmp_vars  == <<response, utils_out, app_out>>
app_vars  == <<authenticated, login, app_mode, app_language, app_pc, app_calls,
               app_response, app_transcript, app_mom>>
rec_vars  == <<recording, rec_send_function, worker_pc, batch, delivered, audio_queue,
               sent, stop_pc>>
vars == <<seg_vars, live_vars, call_vars, proc_vars, cmp_vars, app_vars, rec_vars>>

---------------------------------------------------------------------------
(* Bounds *)
MaxWords    == 3   \* longest word list given to create_transcript
MaxSpeaker  == 2   \* speaker ids are 0..MaxSpeaker
MaxEvents   == 3   \* results delivered to a handler over the life of the model
MaxSessions == 2   \* process_audio calls made on one transcriber
MaxOps      == 3   \* constructors and entry points run in one process
MaxRetries  == 3   \* largest max_retries given to MoMGenerator.generate_mom
MaxFrames   == 3   \* frames the audio receiver hands out to the worker

Speakers  == 0..MaxSpeaker
WordTexts == {"Hi", "there"}
Word      == [speaker : Speakers, punctuated_word : WordTexts]

BoundedSeq(S, n) == UNION {[1..k -> S] : k \in 0..n}

---------------------------------------------------------------------------
(* Python string helpers *)

IsSpace(c) == c \in {" ", "\n"}

RECURSIVE LStrip(_)
LStrip(s) == IF s # <<>> /\ IsSpace(Head(s)) THEN LStrip(Tail(s)) ELSE s

RECURSIVE RStrip(_)
RStrip(s) == IF s # <<>> /\ IsSpace(s[Len(s)]) THEN RStrip(SubSeq(s, 1, Len(s) - 1)) ELSE s

\* str.strip()
Strip(s) == RStrip(LStrip(s))

\* sep.join(parts)
RECURSIVE Join(_, _)
Join(sep, parts) ==
    IF parts = <<>> THEN <<>>
    ELSE IF Len(parts) = 1 THEN parts[1]
    ELSE parts[1] \o sep \o Join(sep, Tail(parts))

\* no exception, and an exception by its type and args
NoError == [type |-> "None", args |-> <<>>]
Error(type, args) == [type |-> type, args |-> args]

---------------------------------------------------------------------------
(* The parts of the program a specification does not run *)

\* create_transcript is not running
SegmentIdle ==
    /\ words = <<>>
    /\ seg_pc = "idle"
    /\ idx = 1
    /\ lines = <<>>
    /\ curr_speaker = 0
    /\ curr_line = <<>>
    /\ result = <<>>
    /\ seg_error = NoError

\* no transcriber, collector or standalone script exists
LiveIdle ==
    /\ program = "none"
    /\ transcript_parts = <<>>
    /\ callback = "None"
    /\ transcription_complete = "None"
    /\ pa_pc = "idle"
    /\ conn_open = FALSE
    /\ audio_on = FALSE
    /\ send_function = "None"
    /\ session = 0
    /\ collector_parts = <<>>
    /\ sa_pc = "idle"
    /\ stop_requested = FALSE
    /\ files = <<>>
    /\ history = <<>>
    /\ emitted = <<>>

\* no entry point that calls an external service is running
CallsIdle ==
    /\ entry = "none"
    /\ transcript_in = <<>>
    /\ language = "english"
    /\ max_retries = 0
    /\ prompt = <<>>
    /\ attempt = 0
    /\ call_pc = "idle"
    /\ attempts = <<>>
    /\ outcome = [what |-> "nothing", of |-> 0]

\* the process has constructed nothing yet
ProcessIdle ==
    /\ env = [DG_API_KEY |-> TRUE, OPEN_AI_TOKEN |-> TRUE]
    /\ mom_generator = 0
    /\ instances = 0
    /\ ops = <<>>

\* what a call did: nothing yet, returned a value, or raised an error
NotCalled   == [status |-> "not called", value |-> <<>>, error |-> NoError]
Return(v)   == [status |-> "returned", value |-> v, error |-> NoError]
Raise(e)    == [status |-> "raised", value |-> <<>>, error |-> e]

\* the two create_transcript functions are not being compared
CompareIdle ==
    /\ response = [kind |-> "None"]
    /\ utils_out = NotCalled
    /\ app_out = NotCalled

\* the application has not been opened
AppIdle ==
    /\ authenticated = "absent"
    /\ login = <<>>
    /\ app_mode = "Upload Audio"
    /\ app_language = "English"
    /\ app_pc = "idle"
    /\ app_calls = <<>>
    /\ app_response = [kind |-> "None"]
    /\ app_transcript = <<>>
    /\ app_mom = "None"

\* no AudioRecorder exists
RecorderIdle ==
    /\ recording = FALSE
    /\ rec_send_function = "None"
    /\ worker_pc = "exited"
    /\ batch = <<>>
    /\ delivered = 0
    /\ audio_queue = <<>>
    /\ sent = <<>>
    /\ stop_pc = "idle"

\* the parts added after the first four
OthersIdle ==
    /\ CompareIdle
    /\ AppIdle
    /\ RecorderIdle

---------------------------------------------------------------------------
(* create_transcript *)

\* f"SPEAKER {curr_speaker}:"
Tag(s) == <<"SPEAKER", " ", ToString(s), ":">>

InitSegment ==
    /\ words \in BoundedSeq(Word, MaxWords)
    /\ seg_pc = "loop"
    /\ idx = 1
    /\ lines = <<>>
    /\ curr_speaker = 0
    /\ curr_line = <<>>
    /\ result = <<>>
    /\ seg_error = NoError
    /\ LiveIdle
    /\ CallsIdle
    /\ ProcessIdle
    /\ OthersIdle

\* whether word_struct["speaker"] and word_struct["punctuated_word"] both exist
HasKeys(word_struct) == {"speaker", "punctuated_word"} \subseteq DOMAIN word_struct

\* LoopStep with `curr_speaker = word_speaker` left out of the else branch
LoopStepStaleSpeaker ==
    /\ seg_pc = "loop"
    /\ idx <= Len(words)
    /\ LET word_speaker == words[idx].speaker
           word         == words[idx].punctuated_word
       IN  IF word_speaker = curr_speaker
           THEN /\ curr_line' = curr_line \o <<" ", word>>
                /\ UNCHANGED <<lines, curr_speaker>>
           ELSE /\ lines' = Append(lines, Tag(curr_speaker) \o curr_line \o <<"\n">>)
                /\ curr_speaker' = curr_speaker
                /\ curr_line' = <<" ", word>>
    /\ idx' = idx + 1
    /\ UNCHANGED <<words, seg_pc, result, seg_error, live_vars, call_vars, proc_vars,
                   cmp_vars, app_vars, rec_vars>>

\* one iteration of `for word_struct in words`, for a word that has both keys
LoopStep ==
    /\ seg_pc = "loop"
    /\ idx <= Len(words)
    /\ HasKeys(words[idx])
    /\ LET word_speaker == words[idx].speaker
           word         == words[idx].punctuated_word
       IN  IF word_speaker = curr_speaker
           THEN /\ curr_line' = curr_line \o <<" ", word>>
                /\ UNCHANGED <<lines, curr_speaker>>
           ELSE /\ lines' = Append(lines, Tag(curr_speaker) \o curr_line \o <<"\n">>)
                /\ curr_speaker' = word_speaker
                /\ curr_line' = <<" ", word>>
    /\ idx' = idx + 1
    /\ UNCHANGED <<words, seg_pc, result, seg_error, live_vars, call_vars, proc_vars,
                   cmp_vars, app_vars, rec_vars>>

\* Finish without the "Add final line" statement
FinishNoFinalLine ==
    /\ seg_pc = "loop"
    /\ idx > Len(words)
    /\ lines' = lines
    /\ result' = Join(<<"\n">>, lines')
    /\ seg_pc' = "done"
    /\ UNCHANGED <<words, idx, curr_speaker, curr_line, seg_error, live_vars, call_vars,
                   proc_vars,
                   cmp_vars, app_vars, rec_vars>>

\* Finish with the final line appended only `if curr_line:`
FinishSkipEmptyLine ==
    /\ seg_pc = "loop"
    /\ idx > Len(words)
    /\ lines' = IF curr_line # <<>> THEN Append(lines, Tag(curr_speaker) \o curr_line)
                                    ELSE lines
    /\ result' = Join(<<"\n">>, lines')
    /\ seg_pc' = "done"
    /\ UNCHANGED <<words, idx, curr_speaker, curr_line, seg_error, live_vars, call_vars,
                   proc_vars,
                   cmp_vars, app_vars, rec_vars>>

\* Finish with a newline at the end of the final line as well
FinishTrailingNewline ==
    /\ seg_pc = "loop"
    /\ idx > Len(words)
    /\ lines' = Append(lines, Tag(curr_speaker) \o curr_line \o <<"\n">>)
    /\ result' = Join(<<"\n">>, lines')
    /\ seg_pc' = "done"
    /\ UNCHANGED <<words, idx, curr_speaker, curr_line, seg_error, live_vars, call_vars,
                   proc_vars,
                   cmp_vars, app_vars, rec_vars>>

\* after the loop: append the final line and join
Finish ==
    /\ seg_pc = "loop"
    /\ idx > Len(words)
    /\ lines' = Append(lines, Tag(curr_speaker) \o curr_line)
    /\ result' = Join(<<"\n">>, lines')
    /\ seg_pc' = "done"
    /\ UNCHANGED <<words, idx, curr_speaker, curr_line, seg_error, live_vars, call_vars,
                   proc_vars,
                   cmp_vars, app_vars, rec_vars>>

NextSegment ==
    \/ LoopStep
    \/ Finish

SpecSegment == InitSegment /\ [][NextSegment]_vars

\* Word lists in which records may lack a key
AnyWord == Word \cup [speaker : Speakers] \cup [punctuated_word : WordTexts]

InitSegmentAny ==
    /\ words \in BoundedSeq(AnyWord, MaxWords)
    /\ seg_pc = "loop"
    /\ idx = 1
    /\ lines = <<>>
    /\ curr_speaker = 0
    /\ curr_line = <<>>
    /\ result = <<>>
    /\ seg_error = NoError
    /\ LiveIdle
    /\ CallsIdle
    /\ ProcessIdle
    /\ OthersIdle

\* an iteration whose word lacks a key: the subscript raises KeyError(key),
\* "speaker" being read first; utils.py logs it and re-raises, app.py has no
\* handler; the locals are gone and nothing is returned
LoopStepKeyError ==
    /\ seg_pc = "loop"
    /\ idx <= Len(words)
    /\ ~HasKeys(words[idx])
    /\ seg_error' = Error("KeyError",
           IF "speaker" \notin DOMAIN words[idx] THEN <<"speaker">>
                                                 ELSE <<"punctuated_word">>)
    /\ seg_pc' = "raised"
    /\ UNCHANGED <<words, idx, lines, curr_speaker, curr_line, result,
                   live_vars, call_vars, proc_vars,
                   cmp_vars, app_vars, rec_vars>>

NextSegmentAny ==
    \/ LoopStep
    \/ LoopStepKeyError
    \/ Finish

SpecSegmentAny == InitSegmentAny /\ [][NextSegmentAny]_vars

---------------------------------------------------------------------------
(* The two create_transcript functions, src/src/utils.py and               *)
(* src/src/app.py, each as a function of its argument and both applied to  *)
(* the same response.  A response is None, an empty dict, or a dict that   *)
(* carries a word list.                                                    *)

Responses ==
    {[kind |-> "None"], [kind |-> "empty"]}
        \cup {[kind |-> "words", words |-> ws] : ws \in BoundedSeq(AnyWord, MaxWords)}

\* utils.py, lines 172-188: the loop from word i on, then the final line
RECURSIVE utils_loop(_, _, _, _, _)
utils_loop(ws, i, ls, speaker, line) ==
    IF i > Len(ws)
    THEN Return(Join(<<"\n">>, Append(ls, Tag(speaker) \o line)))
    ELSE IF "speaker" \notin DOMAIN ws[i]
    THEN Raise(Error("KeyError", <<"speaker">>))
    ELSE IF "punctuated_word" \notin DOMAIN ws[i]
    THEN Raise(Error("KeyError", <<"punctuated_word">>))
    ELSE IF ws[i].speaker = speaker
    THEN utils_loop(ws, i + 1, ls, speaker, line \o <<" ", ws[i].punctuated_word>>)
    ELSE utils_loop(ws, i + 1, Append(ls, Tag(speaker) \o line \o <<"\n">>),
                    ws[i].speaker, <<" ", ws[i].punctuated_word>>)

\* utils.py create_transcript: response["results"]... raises TypeError on
\* None and KeyError on a dict without "results"; every exception is logged
\* and re-raised
utils_create_transcript(resp) ==
    IF resp.kind = "None" THEN Raise(Error("TypeError", <<>>))
    ELSE IF resp.kind = "empty" THEN Raise(Error("KeyError", <<"results">>))
    ELSE utils_loop(resp.words, 1, <<>>, 0, <<>>)

\* app.py, lines 67-81: the loop from word i on, then the final line
RECURSIVE app_loop(_, _, _, _, _)
app_loop(ws, i, ls, speaker, line) ==
    IF i > Len(ws)
    THEN Return(Join(<<"\n">>, Append(ls, Tag(speaker) \o line)))
    ELSE IF "speaker" \notin DOMAIN ws[i]
    THEN Raise(Error("KeyError", <<"speaker">>))
    ELSE IF "punctuated_word" \notin DOMAIN ws[i]
    THEN Raise(Error("KeyError", <<"punctuated_word">>))
    ELSE IF ws[i].speaker = speaker
    THEN app_loop(ws, i + 1, ls, speaker, line \o <<" ", ws[i].punctuated_word>>)
    ELSE app_loop(ws, i + 1, Append(ls, Tag(speaker) \o line \o <<"\n">>),
                  ws[i].speaker, <<" ", ws[i].punctuated_word>>)

\* app_create_transcript without `if not response: return ""`
app_create_transcript_no_guard(resp) ==
    IF resp.kind = "None" THEN Raise(Error("TypeError", <<>>))
    ELSE IF resp.kind = "empty" THEN Raise(Error("KeyError", <<"results">>))
    ELSE app_loop(resp.words, 1, <<>>, 0, <<>>)

\* app.py create_transcript: `if not response: return ""` first
app_create_transcript(resp) ==
    IF resp.kind \in {"None", "empty"} THEN Return(<<>>)
    ELSE app_loop(resp.words, 1, <<>>, 0, <<>>)

InitCompare ==
    /\ response \in Responses
    /\ utils_out = NotCalled
    /\ app_out = NotCalled
    /\ SegmentIdle
    /\ LiveIdle
    /\ CallsIdle
    /\ ProcessIdle
    /\ AppIdle
    /\ RecorderIdle

\* utils.create_transcript(response)
CallUtilsCreateTranscript ==
    /\ utils_out = NotCalled
    /\ utils_out' = utils_create_transcript(response)
    /\ UNCHANGED <<response, app_out, seg_vars, live_vars, call_vars, proc_vars,
                   app_vars, rec_vars>>

\* app.create_transcript(response)
CallAppCreateTranscript ==
    /\ app_out = NotCalled
    /\ app_out' = app_create_transcript(response)
    /\ UNCHANGED <<response, utils_out, seg_vars, live_vars, call_vars, proc_vars,
                   app_vars, rec_vars>>

NextCompare ==
    \/ CallUtilsCreateTranscript
    \/ CallAppCreateTranscript

SpecCompare == InitCompare /\ [][NextCompare]_vars

----------------------------------------------------------------------------
(* The Streamlit application (src/src/app.py): one browser session.  The   *)
(* script runs top to bottom on every interaction; a "Generate MoM" click  *)
(* runs its external calls one after the other.                            *)

\* what a user may type into the Username and Password fields
Credentials ==
    {<<>>, <<"admin">>, <<" ", "admin", " ">>, <<"root">>, <<"admin", " ", "admin">>}
Modes == {"Upload Audio", "Live Recording"}
AppLanguages == {"English", "Japanese"}
\* str.lower() on the two languages of the select box
lower(s) == IF s = "English" THEN "english" ELSE IF s = "Japanese" THEN "japanese" ELSE s

\* what transcribe_audio may return: None after a failure, else the
\* response dict: no words, one turn, two turns, a word without its speaker
AppResponses ==
    {[kind |-> "None"],
     [kind |-> "words", words |-> <<>>],
     [kind |-> "words", words |-> <<[speaker |-> 0, punctuated_word |-> "Hi"]>>],
     [kind |-> "words", words |-> <<[speaker |-> 0, punctuated_word |-> "Hi"],
                                    [speaker |-> 1, punctuated_word |-> "Yes"]>>],
     [kind |-> "words", words |-> <<[punctuated_word |-> "Hi"]>>]}

InitApp ==
    /\ AppIdle
    /\ SegmentIdle
    /\ LiveIdle
    /\ CallsIdle
    /\ ProcessIdle
    /\ CompareIdle
    /\ RecorderIdle

\* a script run before any login: authenticate_user creates the flag
AppFirstRun ==
    /\ authenticated = "absent"
    /\ authenticated' = "False"
    /\ UNCHANGED <<login, app_mode, app_language, app_pc, app_calls, app_response,
                   app_transcript, app_mom,
                   seg_vars, live_vars, call_vars, proc_vars, cmp_vars, rec_vars>>

\* the Login button accepting when either field is "admin"
AppLoginEither(username, password) ==
    /\ authenticated = "False"
    /\ login' = <<username, password>>
    /\ authenticated' =
           IF Strip(username) = <<"admin">> \/ Strip(password) = <<"admin">>
           THEN "True" ELSE authenticated
    /\ UNCHANGED <<app_mode, app_language, app_pc, app_calls, app_response,
                   app_transcript, app_mom,
                   seg_vars, live_vars, call_vars, proc_vars, cmp_vars, rec_vars>>

\* authenticate_user with the Login button clicked: the form exists only
\* while the flag is False
AppLogin(username, password) ==
    /\ authenticated = "False"
    /\ login' = <<username, password>>
    /\ authenticated' =
           IF Strip(username) = <<"admin">> /\ Strip(password) = <<"admin">>
           THEN "True" ELSE authenticated
    /\ UNCHANGED <<app_mode, app_language, app_pc, app_calls, app_response,
                   app_transcript, app_mom,
                   seg_vars, live_vars, call_vars, proc_vars, cmp_vars, rec_vars>>

\* main past `if not authenticate_user(): return`: the mode radio and the
\* language select box.  Changing a widget reruns the script: the locals
\* and the output of an earlier "Generate MoM" run are gone.
AppSelect(mode, lang) ==
    /\ authenticated = "True"
    /\ app_pc = "idle"
    /\ <<mode, lang>> # <<app_mode, app_language>>
    /\ app_mode' = mode
    /\ app_language' = lang
    /\ app_calls' = <<>>
    /\ app_response' = [kind |-> "None"]
    /\ app_transcript' = <<>>
    /\ app_mom' = "None"
    /\ UNCHANGED <<authenticated, login, app_pc,
                   seg_vars, live_vars, call_vars, proc_vars, cmp_vars, rec_vars>>

\* "Generate MoM" clicked with audio present, in either mode
AppGenerate ==
    /\ authenticated = "True"
    /\ app_pc = "idle"
    /\ app_pc' = "transcribe"
    /\ app_calls' = <<>>
    /\ app_response' = [kind |-> "None"]
    /\ app_transcript' = <<>>
    /\ app_mom' = "None"
    /\ UNCHANGED <<authenticated, login, app_mode, app_language,
                   seg_vars, live_vars, call_vars, proc_vars, cmp_vars, rec_vars>>

\* response = transcribe_audio(audio_bytes, dg_client): one request; None
\* when it failed
AppTranscribe(resp) ==
    /\ app_pc = "transcribe"
    /\ app_calls' = Append(app_calls, "transcription")
    /\ app_response' = resp
    /\ app_pc' = "create_transcript"
    /\ UNCHANGED <<authenticated, login, app_mode, app_language, app_transcript, app_mom,
                   seg_vars, live_vars, call_vars, proc_vars, cmp_vars, rec_vars>>

\* transcript = create_transcript(response), then `if language.lower() !=
\* 'english'`; an exception ends the run in `except Exception`
AppCreateTranscript ==
    /\ app_pc = "create_transcript"
    /\ LET out == app_create_transcript(app_response)
       IN  IF out.status = "raised"
           THEN /\ app_pc' = "idle"
                /\ UNCHANGED app_transcript
           ELSE /\ app_transcript' = out.value
                /\ app_pc' = IF lower(app_language) # "english"
                             THEN "translate" ELSE "summarize"
    /\ UNCHANGED <<authenticated, login, app_mode, app_language, app_calls,
                   app_response, app_mom,
                   seg_vars, live_vars, call_vars, proc_vars, cmp_vars, rec_vars>>

\* transcript = translate_text(transcript, language, openai_client): one
\* request; the text unchanged when it failed
AppTranslate(ok) ==
    /\ app_pc = "translate"
    /\ app_calls' = Append(app_calls, "translation")
    /\ app_transcript' = IF ok THEN <<"translated">> ELSE app_transcript
    /\ app_pc' = "summarize"
    /\ UNCHANGED <<authenticated, login, app_mode, app_language, app_response, app_mom,
                   seg_vars, live_vars, call_vars, proc_vars, cmp_vars, rec_vars>>

\* mom = generate_mom(create_prompt(transcript, language), openai_client):
\* one request; None when it failed.  The results are displayed and the
\* script run ends.
AppSummarize(ok) ==
    /\ app_pc = "summarize"
    /\ app_calls' = Append(app_calls, "summarization")
    /\ app_mom' = IF ok THEN "mom" ELSE "None"
    /\ app_pc' = "idle"
    /\ UNCHANGED <<authenticated, login, app_mode, app_language, app_response,
                   app_transcript,
                   seg_vars, live_vars, call_vars, proc_vars, cmp_vars, rec_vars>>

NextApp ==
    \/ AppFirstRun
    \/ \E username \in Credentials, password \in Credentials : AppLogin(username, password)
    \/ \E mode \in Modes, lang \in AppLanguages : AppSelect(mode, lang)
    \/ AppGenerate
    \/ \E resp \in AppResponses : AppTranscribe(resp)
    \/ AppCreateTranscript
    \/ \E ok \in BOOLEAN : AppTranslate(ok)
    \/ \E ok \in BOOLEAN : AppSummarize(ok)

SpecApp == InitApp /\ [][NextApp]_vars

----------------------------------------------------------------------------
(* AudioRecorder (src/src/audio_recorder.py): the thread that calls        *)
(* start() and stop(), and the worker thread running                       *)
(* _process_audio_frames.  Every read and write of recording and           *)
(* send_function is a step of its own, so the two threads interleave       *)
(* between them.  audio_queue holds every chunk ever put.                  *)

\* the functions handed to start()
SendFunctions == {"connection.send"}

\* the recorder after __init__ with webrtc_ctx.audio_receiver present:
\* recording is True and the worker thread has been started
InitRecorder ==
    /\ recording = TRUE
    /\ rec_send_function = "None"
    /\ worker_pc = "test"
    /\ batch = <<>>
    /\ delivered = 0
    /\ audio_queue = <<>>
    /\ sent = <<>>
    /\ stop_pc = "idle"
    /\ SegmentIdle
    /\ LiveIdle
    /\ CallsIdle
    /\ ProcessIdle
    /\ CompareIdle
    /\ AppIdle

\* where the worker goes once the frame at the head of the batch is done
AfterFrame == IF Tail(batch) = <<>> THEN "test" ELSE "handle"

\* _process_audio_frames: `while self.recording:`
WorkerTest ==
    /\ worker_pc = "test"
    /\ worker_pc' = IF recording THEN "get" ELSE "exited"
    /\ UNCHANGED <<recording, rec_send_function, batch, delivered, audio_queue, sent,
                   stop_pc, seg_vars, live_vars, call_vars, proc_vars, cmp_vars, app_vars>>

\* get_frames(timeout=1) returns the next n frames of the receiver
WorkerGetFrames(n) ==
    /\ worker_pc = "get"
    /\ n >= 1
    /\ delivered + n <= MaxFrames
    /\ batch' = [k \in 1..n |-> delivered + k]
    /\ delivered' = delivered + n
    /\ worker_pc' = "handle"
    /\ UNCHANGED <<recording, rec_send_function, audio_queue, sent, stop_pc,
                   seg_vars, live_vars, call_vars, proc_vars, cmp_vars, app_vars>>

\* get_frames raises queue.Empty after its timeout: `continue`
WorkerGetEmpty ==
    /\ worker_pc = "get"
    /\ worker_pc' = "test"
    /\ UNCHANGED <<recording, rec_send_function, batch, delivered, audio_queue, sent,
                   stop_pc, seg_vars, live_vars, call_vars, proc_vars, cmp_vars, app_vars>>

\* get_frames raises anything else: the error is printed, `break`
WorkerGetError ==
    /\ worker_pc = "get"
    /\ worker_pc' = "exited"
    /\ UNCHANGED <<recording, rec_send_function, batch, delivered, audio_queue, sent,
                   stop_pc, seg_vars, live_vars, call_vars, proc_vars, cmp_vars, app_vars>>

\* _handle_audio_frame: the frame is converted and resampled, then
\* self.audio_queue.put(audio_bytes)
WorkerPut ==
    /\ worker_pc = "handle"
    /\ audio_queue' = Append(audio_queue, Head(batch))
    /\ worker_pc' = "check"
    /\ UNCHANGED <<recording, rec_send_function, batch, delivered, sent, stop_pc,
                   seg_vars, live_vars, call_vars, proc_vars, cmp_vars, app_vars>>

\* `if self.send_function:`
WorkerCheck ==
    /\ worker_pc = "check"
    /\ IF rec_send_function # "None"
       THEN /\ worker_pc' = "call"
            /\ UNCHANGED batch
       ELSE /\ batch' = Tail(batch)
            /\ worker_pc' = AfterFrame
    /\ UNCHANGED <<recording, rec_send_function, delivered, audio_queue, sent, stop_pc,
                   seg_vars, live_vars, call_vars, proc_vars, cmp_vars, app_vars>>

\* `self.send_function(audio_bytes)`: the attribute is read again; calling
\* None raises TypeError, which the except clause of the function prints
WorkerCall ==
    /\ worker_pc = "call"
    /\ sent' = IF rec_send_function # "None" THEN Append(sent, Head(batch)) ELSE sent
    /\ batch' = Tail(batch)
    /\ worker_pc' = AfterFrame
    /\ UNCHANGED <<recording, rec_send_function, delivered, audio_queue, stop_pc,
                   seg_vars, live_vars, call_vars, proc_vars, cmp_vars, app_vars>>

\* AudioRecorder.start: the function is stored, recording is set; no
\* thread is started here
RecorderStart(f) ==
    /\ stop_pc = "idle"
    /\ rec_send_function' = f
    /\ recording' = TRUE
    /\ UNCHANGED <<worker_pc, batch, delivered, audio_queue, sent, stop_pc,
                   seg_vars, live_vars, call_vars, proc_vars, cmp_vars, app_vars>>

\* AudioRecorder.stop: `self.recording = False`, then the join begins
RecorderStopBegin ==
    /\ stop_pc = "idle"
    /\ recording' = FALSE
    /\ stop_pc' = "joining"
    /\ UNCHANGED <<rec_send_function, worker_pc, batch, delivered, audio_queue, sent,
                   seg_vars, live_vars, call_vars, proc_vars, cmp_vars, app_vars>>

\* join(timeout=1) returns because the worker has exited; send_function is
\* cleared and stop returns
RecorderStopJoined ==
    /\ stop_pc = "joining"
    /\ worker_pc = "exited"
    /\ rec_send_function' = "None"
    /\ stop_pc' = "idle"
    /\ UNCHANGED <<recording, worker_pc, batch, delivered, audio_queue, sent,
                   seg_vars, live_vars, call_vars, proc_vars, cmp_vars, app_vars>>

\* join(timeout=1) returns after one second with the worker still alive;
\* send_function is cleared and stop returns
RecorderStopJoinTimeout ==
    /\ stop_pc = "joining"
    /\ worker_pc # "exited"
    /\ rec_send_function' = "None"
    /\ stop_pc' = "idle"
    /\ UNCHANGED <<recording, worker_pc, batch, delivered, audio_queue, sent,
                   seg_vars, live_vars, call_vars, proc_vars, cmp_vars, app_vars>>

NextRecorder ==
    \/ WorkerTest
    \/ \E n \in 1..MaxFrames : WorkerGetFrames(n)
    \/ WorkerGetEmpty
    \/ WorkerGetError
    \/ WorkerPut
    \/ WorkerCheck
    \/ WorkerCall
    \/ \E f \in SendFunctions : RecorderStart(f)
    \/ RecorderStopBegin
    \/ RecorderStopJoined
    \/ RecorderStopJoinTimeout

SpecRecorder == InitRecorder /\ [][NextRecorder]_vars

---------------------------------------------------------------------------
(* Live transcription: DeepgramLiveTranscriber (src/src/deepgram_live.py)  *)
(* and the standalone script (src/live_speech.py)                          *)

\* result.channel.alternatives[0].transcript of the results delivered
Texts == {<<>>, <<" ">>, <<"Hel">>, <<"Hello">>, <<" ", "world">>}
\* a LiveResultResponse as far as the handlers read it.  The service marks
\* speech_final only on a finalized result (endpointing finalizes the slot),
\* so speech_final without is_final is not delivered.
Result == {r \in [transcript : Texts, is_final : BOOLEAN, speech_final : BOOLEAN] :
              r.speech_final => r.is_final}

\* TranscriptCollector.add_part (deepgram_live.py)
add_part(parts, part) == Append(parts, part)

\* TranscriptCollector.get_full_transcript
get_full_transcript(parts) == Join(<<" ">>, parts)

\* TranscriptCollector.reset
reset == <<>>

\* Whether on_message reaches `self.callback(full_sentence)` for result r.
ReachesCallback(parts, cb, r) ==
    /\ Strip(r.transcript) # <<>>
    /\ r.speech_final
    /\ Strip(get_full_transcript(add_part(parts, r.transcript))) # <<>>
    /\ cb # "None"

\* HandleMessage without the `if not sentence.strip(): return` guard
HandleMessageNoBlankCheck(parts, cb, complete, r, raises) ==
    LET sentence      == r.transcript
        added         == add_part(parts, sentence)
        full_sentence == get_full_transcript(added)
        called        == Strip(full_sentence) # <<>> /\ cb # "None"
    IN  IF ~r.speech_final
        THEN [parts |-> added, complete |-> complete, calls |-> <<>>, raised |-> FALSE]
        ELSE IF called /\ raises
        THEN [parts |-> added, complete |-> complete,
              calls |-> <<full_sentence>>, raised |-> TRUE]
        ELSE [parts    |-> reset,
              complete |-> IF complete # "None" THEN "set" ELSE complete,
              calls    |-> IF called THEN <<full_sentence>> ELSE <<>>,
              raised   |-> FALSE]

\* HandleMessage with an except block that also resets the collector
HandleMessageResetOnError(parts, cb, complete, r, raises) ==
    LET sentence      == r.transcript
        added         == add_part(parts, sentence)
        full_sentence == get_full_transcript(added)
        called        == Strip(full_sentence) # <<>> /\ cb # "None"
    IN  IF Strip(sentence) = <<>>
        THEN [parts |-> parts, complete |-> complete, calls |-> <<>>, raised |-> FALSE]
        ELSE IF ~r.speech_final
        THEN [parts |-> added, complete |-> complete, calls |-> <<>>, raised |-> FALSE]
        ELSE IF called /\ raises
        THEN [parts |-> reset, complete |-> complete,
              calls |-> <<full_sentence>>, raised |-> TRUE]
        ELSE [parts    |-> reset,
              complete |-> IF complete # "None" THEN "set" ELSE complete,
              calls    |-> IF called THEN <<full_sentence>> ELSE <<>>,
              raised   |-> FALSE]

\* DeepgramLiveTranscriber.on_message as a function of the fields it reads:
\* the new transcript_parts, the new state of the completion event, and the
\* texts the callback was invoked with.  `raises` says whether the callback,
\* if it is invoked, raises; the exception is caught by the handler's
\* `except Exception`, which skips the rest of the try block.
HandleMessage(parts, cb, complete, r, raises) ==
    LET sentence      == r.transcript
        added         == add_part(parts, sentence)
        full_sentence == get_full_transcript(added)
        called        == Strip(full_sentence) # <<>> /\ cb # "None"
    IN  IF Strip(sentence) = <<>>
        THEN [parts |-> parts, complete |-> complete, calls |-> <<>>, raised |-> FALSE]
        ELSE IF ~r.speech_final
        THEN [parts |-> added, complete |-> complete, calls |-> <<>>, raised |-> FALSE]
        ELSE IF called /\ raises
        THEN [parts |-> added, complete |-> complete,
              calls |-> <<full_sentence>>, raised |-> TRUE]
        ELSE [parts    |-> reset,
              complete |-> IF complete # "None" THEN "set" ELSE complete,
              calls    |-> IF called THEN <<full_sentence>> ELSE <<>>,
              raised   |-> FALSE]

InitLive ==
    /\ program \in {"transcriber", "standalone"}
    /\ transcript_parts = <<>>
    /\ callback = "None"
    /\ transcription_complete = "None"
    /\ pa_pc = "idle"
    /\ conn_open = FALSE
    /\ audio_on = FALSE
    /\ send_function = "None"
    /\ session = 0
    /\ collector_parts = <<>>
    /\ sa_pc = (IF program = "standalone" THEN "running" ELSE "idle")
    /\ stop_requested = FALSE
    /\ files = <<>>
    /\ history = <<>>
    /\ emitted = <<>>
    /\ SegmentIdle
    /\ CallsIdle
    /\ ProcessIdle
    /\ OthersIdle

\* process_audio up to `await self.transcription_complete.wait()`; this
\* specification follows one process_audio call on a transcriber
ProcessAudioStart(cb) ==
    /\ program = "transcriber"
    /\ pa_pc = "idle"
    /\ callback' = cb
    /\ transcription_complete' = "clear"
    /\ conn_open' = TRUE
    /\ audio_on' = TRUE
    /\ send_function' = "connection.send"
    /\ session' = session + 1
    /\ pa_pc' = "waiting"
    /\ UNCHANGED <<program, transcript_parts, collector_parts, history, emitted, sa_pc,
                   files, stop_requested,
                   seg_vars, call_vars, proc_vars,
                   cmp_vars, app_vars, rec_vars>>

\* the connection delivers a Transcript event to on_message
OnMessage(r, raises) ==
    /\ program = "transcriber"
    /\ conn_open
    /\ Len(history) < MaxEvents
    /\ raises => ReachesCallback(transcript_parts, callback, r)
    /\ LET h == HandleMessage(transcript_parts, callback, transcription_complete, r, raises)
       IN  /\ transcript_parts' = h.parts
           /\ transcription_complete' = h.complete
           /\ emitted' = emitted \o h.calls
           /\ history' = Append(history,
                  [handler |-> "on_message", transcript |-> r.transcript,
                   is_final |-> r.is_final, speech_final |-> r.speech_final,
                   cb |-> callback, calls |-> h.calls, raised |-> h.raised,
                   malformed |-> FALSE, session |-> session])
    /\ UNCHANGED <<program, callback, pa_pc, conn_open, audio_on, send_function, session,
                   collector_parts, sa_pc, files, stop_requested,
                   seg_vars, call_vars, proc_vars,
                   cmp_vars, app_vars, rec_vars>>

\* the connection delivers a result with an empty `alternatives` list: line 51
\* raises IndexError, which the handler's `except Exception` prints
OnMessageMalformed ==
    /\ program = "transcriber"
    /\ conn_open
    /\ Len(history) < MaxEvents
    /\ history' = Append(history,
           [handler |-> "on_message", transcript |-> <<>>,
            is_final |-> FALSE, speech_final |-> FALSE,
            cb |-> callback, calls |-> <<>>, raised |-> FALSE,
            malformed |-> TRUE, session |-> session])
    /\ UNCHANGED <<program, transcript_parts, callback, transcription_complete, pa_pc,
                   conn_open, audio_on, send_function, session, collector_parts, emitted,
                   sa_pc, files, stop_requested,
                   seg_vars, call_vars, proc_vars,
                   cmp_vars, app_vars, rec_vars>>

\* on_error, on_close, on_metadata: print only
OnOtherEvent ==
    /\ program = "transcriber"
    /\ conn_open
    /\ UNCHANGED vars

\* DeepgramLiveTranscriber.stop
Stop ==
    /\ program = "transcriber"
    /\ transcription_complete' =
          IF transcription_complete # "None" THEN "set" ELSE transcription_complete
    /\ stop_requested' = TRUE
    /\ UNCHANGED <<program, transcript_parts, callback, pa_pc, conn_open, audio_on,
                   send_function, session, collector_parts, history, emitted, sa_pc, files,
                   seg_vars, call_vars, proc_vars,
                   cmp_vars, app_vars, rec_vars>>

\* ProcessAudioFinish without `await connection.finish()`
ProcessAudioFinishNoConnFinish ==
    /\ program = "transcriber"
    /\ pa_pc = "waiting"
    /\ transcription_complete = "set"
    /\ audio_on' = FALSE
    /\ send_function' = "None"
    /\ conn_open' = conn_open
    /\ stop_requested' = FALSE
    /\ pa_pc' = "done"
    /\ UNCHANGED <<program, transcript_parts, callback, transcription_complete, session,
                   collector_parts, history, emitted, sa_pc, files,
                   seg_vars, call_vars, proc_vars,
                   cmp_vars, app_vars, rec_vars>>

\* the wait returns once the event is set; the finally block cleans up
ProcessAudioFinish ==
    /\ program = "transcriber"
    /\ pa_pc = "waiting"
    /\ transcription_complete = "set"
    /\ audio_on' = FALSE
    /\ send_function' = "None"
    /\ conn_open' = FALSE
    /\ stop_requested' = FALSE
    /\ pa_pc' = "done"
    /\ UNCHANGED <<program, transcript_parts, callback, transcription_complete, session,
                   collector_parts, history, emitted, sa_pc, files,
                   seg_vars, call_vars, proc_vars,
                   cmp_vars, app_vars, rec_vars>>

\* the task is cancelled while waiting: CancelledError is caught, then finally
ProcessAudioCancel ==
    /\ program = "transcriber"
    /\ pa_pc = "waiting"
    /\ audio_on' = FALSE
    /\ send_function' = "None"
    /\ conn_open' = FALSE
    /\ stop_requested' = FALSE
    /\ pa_pc' = "done"
    /\ UNCHANGED <<program, transcript_parts, callback, transcription_complete, session,
                   collector_parts, history, emitted, sa_pc, files,
                   seg_vars, call_vars, proc_vars,
                   cmp_vars, app_vars, rec_vars>>

\* live_speech.py: TranscriptCollector.get_transcript
get_transcript(parts) == Join(<<" ">>, parts)

\* live_speech.py: TranscriptCollector.add_part
collector_add_part(parts, part) ==
    IF Strip(part) # <<>> THEN Append(parts, part) ELSE parts

\* StandaloneHandle without the `if result.is_final` test
StandaloneHandleAnyResult(parts, r) ==
    IF Strip(r.transcript) # <<>>
    THEN collector_add_part(parts, r.transcript)
    ELSE parts

\* live_speech.py: main.on_message as a function of the collector's parts
StandaloneHandle(parts, r) ==
    IF r.is_final
    THEN IF Strip(r.transcript) # <<>>
         THEN collector_add_part(parts, r.transcript)
         ELSE parts
    ELSE parts

\* the connection delivers a result; it can do so until connection.finish()
\* in the finally block is over
StandaloneOnMessage(r) ==
    /\ program = "standalone"
    /\ sa_pc # "ended"
    /\ Len(history) < MaxEvents
    /\ collector_parts' = StandaloneHandle(collector_parts, r)
    /\ history' = Append(history,
           [handler |-> "main.on_message", transcript |-> r.transcript,
            is_final |-> r.is_final, speech_final |-> r.speech_final,
            cb |-> "None", calls |-> <<>>, raised |-> FALSE,
            malformed |-> FALSE, session |-> session])
    /\ UNCHANGED <<program, transcript_parts, callback, transcription_complete, pa_pc,
                   conn_open, audio_on, send_function, session, emitted, sa_pc, files,
                   stop_requested,
                   seg_vars, call_vars, proc_vars,
                   cmp_vars, app_vars, rec_vars>>

\* live_speech.py main: the try block is left, by Ctrl+C ("interrupted") or
\* by an exception of any statement in it ("failed"); the except clauses
\* print, and control reaches the finally block
StandaloneLeaveTry(how) ==
    /\ program = "standalone"
    /\ sa_pc = "running"
    /\ sa_pc' = how
    /\ UNCHANGED <<program, transcript_parts, callback, transcription_complete, pa_pc,
                   conn_open, audio_on, send_function, session, collector_parts, files,
                   stop_requested,
                   history, emitted, seg_vars, call_vars, proc_vars,
                   cmp_vars, app_vars, rec_vars>>

\* the finally block: microphone and connection are finished, then the
\* final transcript is read and, if it is not empty, written to a file
StandaloneFinally ==
    /\ program = "standalone"
    /\ sa_pc \in {"interrupted", "failed"}
    /\ LET final_transcript == get_transcript(collector_parts)
       IN  files' = IF final_transcript # <<>> THEN Append(files, final_transcript)
                                              ELSE files
    /\ sa_pc' = "ended"
    /\ UNCHANGED <<program, transcript_parts, callback, transcription_complete, pa_pc,
                   conn_open, audio_on, send_function, session, collector_parts, stop_requested,
                   history, emitted, seg_vars, call_vars, proc_vars,
                   cmp_vars, app_vars, rec_vars>>

Next ==
    \/ \E cb \in {"None", "cb"} : ProcessAudioStart(cb)
    \/ \E r \in Result, raises \in BOOLEAN : OnMessage(r, raises)
    \/ OnMessageMalformed
    \/ OnOtherEvent
    \/ Stop
    \/ ProcessAudioFinish
    \/ ProcessAudioCancel
    \/ \E r \in Result : StandaloneOnMessage(r)
    \/ \E how \in {"interrupted", "failed"} : StandaloneLeaveTry(how)
    \/ StandaloneFinally

Spec == InitLive /\ [][Next]_vars

---------------------------------------------------------------------------
(* The two TranscriptCollector classes on their own: every call sequence   *)
(* of add_part and reset, given to a deepgram_live.py collector            *)
(* (transcript_parts) and to a live_speech.py collector (collector_parts)  *)

InitCollector ==
    /\ program = "collector"
    /\ transcript_parts = <<>>
    /\ collector_parts = <<>>
    /\ sa_pc = "idle"
    /\ stop_requested = FALSE
    /\ files = <<>>
    /\ callback = "None"
    /\ transcription_complete = "None"
    /\ pa_pc = "idle"
    /\ conn_open = FALSE
    /\ audio_on = FALSE
    /\ send_function = "None"
    /\ session = 0
    /\ history = <<>>
    /\ emitted = <<>>
    /\ SegmentIdle
    /\ CallsIdle
    /\ ProcessIdle
    /\ OthersIdle

\* collector.add_part(part) on each of the two collectors
CollectorAddPart(part) ==
    /\ program = "collector"
    /\ Len(history) < MaxEvents
    /\ transcript_parts' = add_part(transcript_parts, part)
    /\ collector_parts' = collector_add_part(collector_parts, part)
    /\ history' = Append(history,
           [handler |-> "add_part", transcript |-> part,
            is_final |-> FALSE, speech_final |-> FALSE,
            cb |-> "None", calls |-> <<>>, raised |-> FALSE,
            malformed |-> FALSE, session |-> session])
    /\ UNCHANGED <<program, callback, transcription_complete, pa_pc, conn_open, audio_on,
                   send_function, session, emitted, sa_pc, files, stop_requested,
                   seg_vars, call_vars, proc_vars,
                   cmp_vars, app_vars, rec_vars>>

\* collector.reset() on each of the two collectors
CollectorReset ==
    /\ program = "collector"
    /\ transcript_parts' = reset
    /\ collector_parts' = reset
    /\ UNCHANGED <<program, callback, transcription_complete, pa_pc, conn_open, audio_on,
                   send_function, session, history, emitted, sa_pc, files, stop_requested,
                   seg_vars, call_vars, proc_vars,
                   cmp_vars, app_vars, rec_vars>>

NextCollector ==
    \/ \E part \in Texts : CollectorAddPart(part)
    \/ CollectorReset

SpecCollector == InitCollector /\ [][NextCollector]_vars

---------------------------------------------------------------------------
(* Several live sessions on one DeepgramLiveTranscriber: process_audio is  *)
(* called again after it has returned.  The results are finalized ones     *)
(* with text, and the callback does not raise.                             *)

SessionResult == {r \in Result : r.is_final /\ r.transcript \in {<<"Hello">>, <<" ", "world">>}}

InitSessions ==
    /\ program = "transcriber"
    /\ transcript_parts = <<>>
    /\ callback = "None"
    /\ transcription_complete = "None"
    /\ pa_pc = "idle"
    /\ conn_open = FALSE
    /\ audio_on = FALSE
    /\ send_function = "None"
    /\ session = 0
    /\ collector_parts = <<>>
    /\ sa_pc = "idle"
    /\ stop_requested = FALSE
    /\ files = <<>>
    /\ history = <<>>
    /\ emitted = <<>>
    /\ SegmentIdle
    /\ CallsIdle
    /\ ProcessIdle
    /\ OthersIdle

\* process_audio called again on the same transcriber after the previous
\* call returned: a new callback, a new Event, a new connection; the
\* collector made in __init__ is not touched
ProcessAudioAgain(cb) ==
    /\ program = "transcriber"
    /\ pa_pc = "done"
    /\ session < MaxSessions
    /\ callback' = cb
    /\ transcription_complete' = "clear"
    /\ conn_open' = TRUE
    /\ audio_on' = TRUE
    /\ send_function' = "connection.send"
    /\ session' = session + 1
    /\ pa_pc' = "waiting"
    /\ UNCHANGED <<program, transcript_parts, collector_parts, history, emitted, sa_pc,
                   files, stop_requested,
                   seg_vars, call_vars, proc_vars,
                   cmp_vars, app_vars, rec_vars>>

NextSessions ==
    \/ \E cb \in {"None", "cb"} : ProcessAudioStart(cb)
    \/ \E cb \in {"None", "cb"} : ProcessAudioAgain(cb)
    \/ \E r \in SessionResult : OnMessage(r, FALSE)
    \/ Stop
    \/ ProcessAudioFinish
    \/ ProcessAudioCancel

SpecSessions == InitSessions /\ [][NextSessions]_vars

\* the event loop resumes a task whose wait can return
FairSpecSessions == SpecSessions /\ WF_vars(ProcessAudioFinish)

---------------------------------------------------------------------------
(* Entry points that call an external service: MoMGenerator.generate_mom   *)
(* (src/src/mom_generator.py), generate_mom, transcribe_audio and          *)
(* translate_text of src/src/app.py, transcribe_uploaded_file of           *)
(* src/src/utils.py.  One run of one entry point; the service decides at   *)
(* every request whether it answers (ok) or fails.                         *)

Entries == {"MoMGenerator.generate_mom", "app.generate_mom", "app.transcribe_audio",
            "app.translate_text", "utils.transcribe_uploaded_file"}
\* the transcript, text or audio handed to the entry point
CallTexts == {<<"hello">>, <<"status", " ", "update">>, <<>>}
Languages == {"english", "japanese"}

\* MoMGenerator.create_mom_prompt: an f-string holding language and transcript
create_mom_prompt(t, l) == <<"MoM", " ", l, "\n">> \o t

\* app.py: create_prompt, and the prompt translate_text builds
create_prompt(t, l) == <<"MoM-app", " ", l, "\n">> \o t
translate_prompt(t, l) ==
    (IF l # "english" THEN <<"Translate", " ", l>> ELSE <<>>) \o <<"\n">> \o t

\* what an entry point returned or raised.  what: "response" (the content
\* of the answer to request number `of`), "error" (the exception of request
\* number `of`, propagating), "None", "input" (the text argument, unchanged)
Outcome(what, of) == [what |-> what, of |-> of]

InitCalls ==
    /\ entry \in Entries
    /\ transcript_in \in CallTexts
    /\ language \in Languages
    /\ max_retries \in (IF entry = "MoMGenerator.generate_mom" THEN (-1)..MaxRetries ELSE {0})
    /\ prompt = <<>>
    /\ attempt = 0
    /\ call_pc = "called"
    /\ attempts = <<>>
    /\ outcome = Outcome("nothing", 0)
    /\ SegmentIdle
    /\ LiveIdle
    /\ ProcessIdle
    /\ OthersIdle

\* MoMGenerator.generate_mom, line 103: the prompt is built before the loop
GenerateMomPrompt ==
    /\ entry = "MoMGenerator.generate_mom"
    /\ call_pc = "called"
    /\ prompt' = create_mom_prompt(transcript_in, language)
    /\ attempt' = 0
    /\ call_pc' = "loop"
    /\ UNCHANGED <<entry, transcript_in, language, max_retries, attempts, outcome,
                   seg_vars, live_vars, proc_vars,
                   cmp_vars, app_vars, rec_vars>>

\* GenerateMomAttempt without the `return` in the try block
GenerateMomAttemptNoReturn(ok) ==
    /\ entry = "MoMGenerator.generate_mom"
    /\ call_pc = "loop"
    /\ attempt < max_retries
    /\ attempts' = Append(attempts, [request |-> prompt, ok |-> ok])
    /\ IF ~ok /\ attempt = max_retries - 1
       THEN /\ call_pc' = "raised"
            /\ outcome' = Outcome("error", attempt + 1)
            /\ UNCHANGED attempt
       ELSE /\ attempt' = attempt + 1
            /\ UNCHANGED <<call_pc, outcome>>
    /\ UNCHANGED <<entry, transcript_in, language, max_retries, prompt,
                   seg_vars, live_vars, proc_vars,
                   cmp_vars, app_vars, rec_vars>>

\* GenerateMomAttempt with `if attempt == max_retries:` as the last-attempt test
GenerateMomAttemptOffByOne(ok) ==
    /\ entry = "MoMGenerator.generate_mom"
    /\ call_pc = "loop"
    /\ attempt < max_retries
    /\ attempts' = Append(attempts, [request |-> prompt, ok |-> ok])
    /\ IF ok
       THEN /\ call_pc' = "returned"
            /\ outcome' = Outcome("response", attempt + 1)
            /\ UNCHANGED attempt
       ELSE IF attempt = max_retries
       THEN /\ call_pc' = "raised"
            /\ outcome' = Outcome("error", attempt + 1)
            /\ UNCHANGED attempt
       ELSE /\ attempt' = attempt + 1
            /\ UNCHANGED <<call_pc, outcome>>
    /\ UNCHANGED <<entry, transcript_in, language, max_retries, prompt,
                   seg_vars, live_vars, proc_vars,
                   cmp_vars, app_vars, rec_vars>>

\* one iteration of `for attempt in range(max_retries)`: the request is sent;
\* an answer is returned at once, a failure is re-raised on the last
\* iteration and otherwise printed before the loop continues
GenerateMomAttempt(ok) ==
    /\ entry = "MoMGenerator.generate_mom"
    /\ call_pc = "loop"
    /\ attempt < max_retries
    /\ attempts' = Append(attempts, [request |-> prompt, ok |-> ok])
    /\ IF ok
       THEN /\ call_pc' = "returned"
            /\ outcome' = Outcome("response", attempt + 1)
            /\ UNCHANGED attempt
       ELSE IF attempt = max_retries - 1
       THEN /\ call_pc' = "raised"
            /\ outcome' = Outcome("error", attempt + 1)
            /\ UNCHANGED attempt
       ELSE /\ attempt' = attempt + 1
            /\ UNCHANGED <<call_pc, outcome>>
    /\ UNCHANGED <<entry, transcript_in, language, max_retries, prompt,
                   seg_vars, live_vars, proc_vars,
                   cmp_vars, app_vars, rec_vars>>

\* range(max_retries) is exhausted without a return or a raise: the function
\* body ends and the call returns None
GenerateMomLoopEnd ==
    /\ entry = "MoMGenerator.generate_mom"
    /\ call_pc = "loop"
    /\ attempt >= max_retries
    /\ call_pc' = "returned"
    /\ outcome' = Outcome("None", 0)
    /\ UNCHANGED <<entry, transcript_in, language, max_retries, prompt, attempt, attempts,
                   seg_vars, live_vars, proc_vars,
                   cmp_vars, app_vars, rec_vars>>

\* app.py generate_mom(prompt, openai_client): one request; on an exception
\* st.error and `return None`
AppGenerateMom(ok) ==
    /\ entry = "app.generate_mom"
    /\ call_pc = "called"
    /\ prompt' = create_prompt(transcript_in, language)
    /\ attempts' = Append(attempts, [request |-> prompt', ok |-> ok])
    /\ call_pc' = "returned"
    /\ outcome' = IF ok THEN Outcome("response", 1) ELSE Outcome("None", 0)
    /\ UNCHANGED <<entry, transcript_in, language, max_retries, attempt,
                   seg_vars, live_vars, proc_vars,
                   cmp_vars, app_vars, rec_vars>>

\* app.py transcribe_audio(audio_bytes, client): one request; on an exception
\* st.error and `return None`
AppTranscribeAudio(ok) ==
    /\ entry = "app.transcribe_audio"
    /\ call_pc = "called"
    /\ attempts' = Append(attempts, [request |-> transcript_in, ok |-> ok])
    /\ call_pc' = "returned"
    /\ outcome' = IF ok THEN Outcome("response", 1) ELSE Outcome("None", 0)
    /\ UNCHANGED <<entry, transcript_in, language, max_retries, prompt, attempt,
                   seg_vars, live_vars, proc_vars,
                   cmp_vars, app_vars, rec_vars>>

\* app.py translate_text(text, target_language, openai_client): one request;
\* on an exception st.error and `return text`
AppTranslateText(ok) ==
    /\ entry = "app.translate_text"
    /\ call_pc = "called"
    /\ prompt' = translate_prompt(transcript_in, language)
    /\ attempts' = Append(attempts, [request |-> prompt', ok |-> ok])
    /\ call_pc' = "returned"
    /\ outcome' = IF ok THEN Outcome("response", 1) ELSE Outcome("input", 0)
    /\ UNCHANGED <<entry, transcript_in, language, max_retries, attempt,
                   seg_vars, live_vars, proc_vars,
                   cmp_vars, app_vars, rec_vars>>

\* utils.py transcribe_uploaded_file: one transcribe_file
\* request; an exception is logged and re-raised
UtilsTranscribeUploadedFile(ok) ==
    /\ entry = "utils.transcribe_uploaded_file"
    /\ call_pc = "called"
    /\ attempts' = Append(attempts, [request |-> transcript_in, ok |-> ok])
    /\ call_pc' = IF ok THEN "returned" ELSE "raised"
    /\ outcome' = IF ok THEN Outcome("response", 1) ELSE Outcome("error", 1)
    /\ UNCHANGED <<entry, transcript_in, language, max_retries, prompt, attempt,
                   seg_vars, live_vars, proc_vars,
                   cmp_vars, app_vars, rec_vars>>

NextCalls ==
    \/ GenerateMomPrompt
    \/ \E ok \in BOOLEAN : GenerateMomAttempt(ok)
    \/ GenerateMomLoopEnd
    \/ \E ok \in BOOLEAN : AppGenerateMom(ok)
    \/ \E ok \in BOOLEAN : AppTranscribeAudio(ok)
    \/ \E ok \in BOOLEAN : AppTranslateText(ok)
    \/ \E ok \in BOOLEAN : UtilsTranscribeUploadedFile(ok)

SpecCalls == InitCalls /\ [][NextCalls]_vars

---------------------------------------------------------------------------
(* One process: the environment's API keys, the module global              *)
(* _mom_generator (src/src/mom_generator.py), and the places that read a   *)
(* key: MoMGenerator.__init__ through get_mom_generator,                   *)
(* DeepgramLiveTranscriber.__init__, DeepgramUtils.get_client and main()   *)
(* of src/src/app.py.  mom_generator = 0 stands for None, n > 0 for the    *)
(* n-th MoMGenerator constructed.                                          *)

Keys == {"DG_API_KEY", "OPEN_AI_TOKEN"}
MomFunctions == {"get_mom_generator", "translate_text", "generate_mom"}

\* one entry of ops.  tried: a MoMGenerator construction was attempted;
\* clients: the service clients created; outcome: "ok", "ValueError" (raised
\* to the caller) or "reported" (st.error, then return); instance: the
\* MoMGenerator used; requests: requests sent to a service; after: the
\* global once the operation is over
Op(name, tried, clients, out, instance, requests, after) ==
    [op |-> name, env |-> env, tried |-> tried, clients |-> clients, outcome |-> out,
     instance |-> instance, requests |-> requests, after |-> after]

InitProcess ==
    /\ env \in [Keys -> BOOLEAN]
    /\ mom_generator = 0
    /\ instances = 0
    /\ ops = <<>>
    /\ SegmentIdle
    /\ LiveIdle
    /\ CallsIdle
    /\ OthersIdle

\* the environment is changed between two operations (os.environ)
SetEnv(key, present) ==
    /\ env[key] # present
    /\ env' = [env EXCEPT ![key] = present]
    /\ UNCHANGED <<mom_generator, instances, ops, seg_vars, live_vars, call_vars,
                   cmp_vars, app_vars, rec_vars>>

\* MoMGenerator.__init__: whether it raises, given the environment
MoMGeneratorRaises(e) == ~e["OPEN_AI_TOKEN"]

\* get_mom_generator without the `if _mom_generator is None` test
get_mom_generator_always_new(g, n, e) ==
    IF MoMGeneratorRaises(e)
    THEN [global |-> g, instances |-> n, tried |-> TRUE, raised |-> TRUE,
          clients |-> <<>>]
    ELSE [global |-> n + 1, instances |-> n + 1, tried |-> TRUE, raised |-> FALSE,
          clients |-> <<"OpenAI">>]

\* get_mom_generator, given the global g, the number n of instances made so
\* far and the environment e: the new global and what happened
get_mom_generator(g, n, e) ==
    IF g # 0
    THEN [global |-> g, instances |-> n, tried |-> FALSE, raised |-> FALSE,
          clients |-> <<>>]
    ELSE IF MoMGeneratorRaises(e)
    THEN [global |-> g, instances |-> n, tried |-> TRUE, raised |-> TRUE,
          clients |-> <<>>]
    ELSE [global |-> n + 1, instances |-> n + 1, tried |-> TRUE, raised |-> FALSE,
          clients |-> <<"OpenAI">>]

\* get_mom_generator(), or the module-level translate_text / generate_mom,
\* which send their request through get_mom_generator()
MomCall(fn) ==
    /\ Len(ops) < MaxOps
    /\ LET g == get_mom_generator(mom_generator, instances, env)
       IN  /\ mom_generator' = g.global
           /\ instances' = g.instances
           /\ ops' = Append(ops,
                  Op(fn, g.tried, g.clients,
                     IF g.raised THEN "ValueError" ELSE "ok",
                     IF g.raised THEN 0 ELSE g.global,
                     IF g.raised \/ fn = "get_mom_generator" THEN 0 ELSE 1,
                     g.global))
    /\ UNCHANGED <<env, seg_vars, live_vars, call_vars,
                   cmp_vars, app_vars, rec_vars>>

\* DeepgramLiveTranscriber(): the key is tested first; no client is made here
TranscriberInit ==
    /\ Len(ops) < MaxOps
    /\ ops' = Append(ops,
           Op("DeepgramLiveTranscriber", FALSE, <<>>,
              IF env["DG_API_KEY"] THEN "ok" ELSE "ValueError", 0, 0, mom_generator))
    /\ UNCHANGED <<env, mom_generator, instances, seg_vars, live_vars, call_vars,
                   cmp_vars, app_vars, rec_vars>>

\* DeepgramUtils.get_client(): the key is tested, then the client is made
GetClient ==
    /\ Len(ops) < MaxOps
    /\ ops' = Append(ops,
           IF env["DG_API_KEY"]
           THEN Op("DeepgramUtils.get_client", FALSE, <<"DeepgramClient">>, "ok", 0, 0,
                   mom_generator)
           ELSE Op("DeepgramUtils.get_client", FALSE, <<>>, "ValueError", 0, 0,
                   mom_generator))
    /\ UNCHANGED <<env, mom_generator, instances, seg_vars, live_vars, call_vars,
                   cmp_vars, app_vars, rec_vars>>

\* app.py main(), lines 154-159: both clients are constructed from os.getenv
\* with no test of the keys.  What a client constructor does with a missing
\* key is the library's affair: it raises (strict), and main reports the
\* error and returns, or it constructs the client all the same.
AppMain(dg_strict, openai_strict) ==
    /\ Len(ops) < MaxOps
    /\ LET dg_raises     == ~env["DG_API_KEY"] /\ dg_strict
           openai_raises == ~env["OPEN_AI_TOKEN"] /\ openai_strict
       IN  ops' = Append(ops,
               IF dg_raises
               THEN Op("app.main", FALSE, <<>>, "reported", 0, 0, mom_generator)
               ELSE IF openai_raises
               THEN Op("app.main", FALSE, <<"DeepgramClient">>, "reported", 0, 0,
                       mom_generator)
               ELSE Op("app.main", FALSE, <<"DeepgramClient", "OpenAI">>, "ok", 0, 0,
                       mom_generator))
    /\ UNCHANGED <<env, mom_generator, instances, seg_vars, live_vars, call_vars,
                   cmp_vars, app_vars, rec_vars>>

NextProcess ==
    \/ \E key \in Keys, present \in BOOLEAN : SetEnv(key, present)
    \/ \E fn \in MomFunctions : MomCall(fn)
    \/ TranscriberInit
    \/ GetClient
    \/ \E dg_strict \in BOOLEAN, openai_strict \in BOOLEAN : AppMain(dg_strict, openai_strict)

SpecProcess == InitProcess /\ [][NextProcess]_vars

---------------------------------------------------------------------------
(* Properties of the live transcription handlers *)

Last == history[Len(history)]
NonBlank(e) == Strip(e.transcript) # <<>>
Settled(e) == e.is_final
TextsOf(es) == [i \in 1..Len(es) |-> es[i].transcript]

\* Entry e is a finalize event of the driving protocol: a result with
\* non-blank text and speech_final = true handled by on_message.
IsFinalize(e) == e.handler = "on_message" /\ NonBlank(e) /\ e.speech_final

\* Index of the last finalize event before entry k (0 if there is none).
PrevFinalize(k) ==
    LET S == {j \in 1..(k - 1) : IsFinalize(history[j])}
    IN  IF S = {} THEN 0 ELSE CHOOSE j \in S : \A i \in S : i <= j

\* The fragments accumulated since the previous finalize, entry k included:
\* the non-blank results handled after it, in arrival order.
Pending(k) == SelectSeq(SubSeq(history, PrevFinalize(k) + 1, k), NonBlank)

\* A step in which a handler handles one result.
HandlesResult == Len(history') = Len(history) + 1

\* C4: the utterance emitted on a speech_final result is built from settled
\* (is_final) results only, interim results never appear in it; and for the
\* events ("Hel", interim), ("Hello", final), (" world", final, speech_final)
\* the callback is invoked exactly once, with "Hello world".
C4_EmittedFromSettledOnly ==
    /\ \A k \in 1..Len(history) :
          history[k].calls # <<>> =>
              history[k].calls =
                  <<Join(<<" ">>, TextsOf(SelectSeq(Pending(k), Settled)))>>
    /\ ( /\ Len(history) = 3
         /\ history[1].cb = "cb"
         /\ TextsOf(history) = << <<"Hel">>, <<"Hello">>, <<" ", "world">> >>
         /\ [i \in 1..3 |-> history[i].is_final] = <<FALSE, TRUE, TRUE>>
         /\ [i \in 1..3 |-> history[i].speech_final] = <<FALSE, FALSE, TRUE>> )
       => emitted = << <<"Hello", " ", "world">> >>

\* C5: a result with non-blank text handled while a callback is registered
\* invokes the callback exactly once if speech_final, with the space-joined
\* fragments accumulated since the previous finalize (this one included),
\* and not at all if not speech_final.
C5_CallbackOncePerFinalize ==
    \A k \in 1..Len(history) :
        LET e == history[k]
        IN  (e.handler = "on_message" /\ NonBlank(e) /\ e.cb = "cb") =>
                IF e.speech_final
                THEN e.calls = <<Join(<<" ">>, TextsOf(Pending(k)))>>
                ELSE e.calls = <<>>

\* C6: a speech_final result does not end the live session: handling a result
\* leaves the completion event alone, so process_audio keeps waiting with the
\* audio source and the connection open.
C6_ResultKeepsSessionOpen ==
    [][HandlesResult =>
          /\ transcription_complete' = transcription_complete
          /\ pa_pc' = pa_pc /\ conn_open' = conn_open /\ audio_on' = audio_on]_vars

\* C7: when the callback raises on a speech_final result, the collector's
\* fragments have been reset all the same, so the next emitted utterance
\* holds no fragment of the utterance whose callback failed.
C7_ResetDespiteCallbackFailure ==
    /\ (history # <<>> /\ Last.raised) => transcript_parts = <<>>
    /\ \A k \in 1..Len(history) :
          ( /\ PrevFinalize(k) > 0
            /\ history[PrevFinalize(k)].raised
            /\ history[k].calls # <<>> )
          => history[k].calls = <<Join(<<" ">>, TextsOf(Pending(k)))>>

\* C8: the aggregator emits exactly on speech_final: a (non-blank) result with
\* speech_final = true makes the accumulated utterance be emitted and the
\* fragments cleared; a result with speech_final = false causes no emission
\* and no clearing.
C8_EmitExactlyOnSpeechFinal ==
    [][(HandlesResult /\ Last'.handler = "on_message" /\ NonBlank(Last')) =>
          IF Last'.speech_final
          THEN /\ callback = "cb" => Len(emitted') = Len(emitted) + 1
               /\ transcript_parts' = <<>>
          ELSE /\ emitted' = emitted
               /\ Len(transcript_parts') >= Len(transcript_parts)
               /\ SubSeq(transcript_parts', 1, Len(transcript_parts))
                     = transcript_parts]_vars

\* C9: a result whose text is blank after trimming is ignored entirely,
\* whatever its flags: fragments unchanged, callback not invoked, completion
\* event not set (and nothing else of the session changes).
C9_BlankResultIgnored ==
    [][(HandlesResult /\ ~NonBlank(Last')) =>
          UNCHANGED <<transcript_parts, collector_parts, emitted,
                      transcription_complete, callback, pa_pc, conn_open,
                      audio_on>>]_vars

C9_Witness ==
    /\ history # <<>>
    /\ Last.handler = "on_message"
    /\ ~NonBlank(Last)
    /\ Last.speech_final
    /\ transcript_parts # <<>>
    /\ callback = "cb"
    /\ transcription_complete = "clear"

\* C10: finalizing returns the space-joined fragments and then clears them:
\* once a speech_final result has been handled the collector's fragments are
\* empty, and joining them again gives the empty string.
C10_FragmentsEmptyAfterFinalize ==
    (history # <<>> /\ IsFinalize(Last)) =>
        /\ transcript_parts = <<>>
        /\ get_full_transcript(transcript_parts) = <<>>

---------------------------------------------------------------------------
(* Properties of create_transcript *)

\* The turn a rendered line stands for: "SPEAKER <speaker>:<text>" with the
\* line's trailing newline (every line but the last has one) left out.
TurnSpeaker(line) == line[3]
TurnText(line) ==
    LET body == SubSeq(line, Len(Tag(0)) + 1, Len(line))
    IN  IF body # <<>> /\ body[Len(body)] = "\n"
        THEN SubSeq(body, 1, Len(body) - 1) ELSE body
Turns == [k \in 1..Len(lines) |-> [speaker |-> TurnSpeaker(lines[k]),
                                   text    |-> TurnText(lines[k])]]

\* The maximal runs of consecutive words with equal speaker id, in order.
RECURSIVE Runs(_)
Runs(ws) ==
    IF ws = <<>> THEN <<>>
    ELSE LET w    == ws[Len(ws)]
             R    == Runs(SubSeq(ws, 1, Len(ws) - 1))
             one  == [speaker |-> w.speaker, texts |-> <<w.punctuated_word>>]
         IN  IF R # <<>> /\ R[Len(R)].speaker = w.speaker
             THEN [R EXCEPT ![Len(R)].texts = Append(@, w.punctuated_word)]
             ELSE Append(R, one)

\* words joined by single spaces
SpaceJoined(texts) == Join(<<" ">>, [j \in 1..Len(texts) |-> <<texts[j]>>])

\* C1: for every non-empty word list, the emitted turns are exactly the
\* maximal runs of equal speaker id, one turn per run and in run order (so
\* the first turn carries the first word's speaker and the number of turns
\* is the number of runs).
C1_TurnsAreMaximalRuns ==
    (seg_pc = "done" /\ words # <<>>) =>
        LET R == Runs(words)
        IN  /\ Len(Turns) = Len(R)
            /\ \A k \in 1..Len(R) :
                  /\ Turns[k].speaker = ToString(R[k].speaker)
                  /\ LStrip(Turns[k].text) = SpaceJoined(R[k].texts)

\* C2: no two adjacent emitted turns carry the same speaker id.
C2_AdjacentTurnsDiffer ==
    \A k \in 1..(Len(lines) - 1) : Turns[k].speaker # Turns[k + 1].speaker

C2_Witness ==
    /\ seg_pc = "done"
    /\ Len(lines) = 3
    /\ Turns[1].speaker = Turns[3].speaker

\* The words read back from the turns, each with its turn's speaker: a turn's
\* text must be (space, word) pairs, i.e. a leading space and then the words
\* separated by single spaces.
WellFormedText(t) ==
    /\ Len(t) % 2 = 0
    /\ \A j \in 1..Len(t) : (j % 2 = 1) <=> (t[j] = " ")
WordsOfTurn(t) ==
    [j \in 1..(Len(t.text) \div 2) |->
        [speaker |-> t.speaker, punctuated_word |-> t.text[2 * j]]]
RECURSIVE Flatten(_)
Flatten(ss) == IF ss = <<>> THEN <<>> ELSE Head(ss) \o Flatten(Tail(ss))

\* C3: the turns' texts, in order, give back exactly the original words in
\* their original order, single-space separated inside a turn (after the
\* turn's leading space), each word in a turn tagged with its speaker id.
C3_TurnsReconstructWords ==
    seg_pc = "done" =>
        /\ \A k \in 1..Len(Turns) : WellFormedText(Turns[k].text)
        /\ Flatten([k \in 1..Len(Turns) |-> WordsOfTurn(Turns[k])])
             = [i \in 1..Len(words) |->
                   [speaker |-> ToString(words[i].speaker),
                    punctuated_word |-> words[i].punctuated_word]]

C3_Witness ==
    /\ seg_pc = "done"
    /\ Len(words) = 3
    /\ Len(lines) = 2
    /\ Len(Turns[1].text) = 4


---------------------------------------------------------------------------
(* Properties of the collectors on their own *)

\* C11: adding a fragment that is empty or whitespace-only to a transcript
\* collector is a no-op: the joined transcript read right after the call is
\* the one that would have been read without it, for the collector of
\* deepgram_live.py and for the collector of live_speech.py.
C11_BlankFragmentIsNoOp ==
    [][(HandlesResult /\ Last'.handler = "add_part" /\ ~NonBlank(Last')) =>
          /\ get_full_transcript(transcript_parts') = get_full_transcript(transcript_parts)
          /\ get_transcript(collector_parts') = get_transcript(collector_parts)]_vars

---------------------------------------------------------------------------
(* Properties of error handling in on_message *)

IsPrefix(a, b) == Len(a) <= Len(b) /\ SubSeq(b, 1, Len(a)) = a

\* C12: when handling one live result raises inside on_message (the result
\* cannot be read, or the callback raises), the handler returns normally,
\* the fragments accumulated before that result are still held by the
\* collector, and the session goes on: the completion event, process_audio,
\* the connection and the audio source are as they were, so later results
\* are still handled.
C12_ErrorKeepsFragmentsAndSession ==
    [][(HandlesResult /\ Last'.handler = "on_message"
                      /\ (Last'.raised \/ Last'.malformed)) =>
          /\ IsPrefix(transcript_parts, transcript_parts')
          /\ transcription_complete' = transcription_complete
          /\ callback' = callback
          /\ pa_pc' = pa_pc /\ conn_open' = conn_open /\ audio_on' = audio_on]_vars

\* a result is accumulated, the callback raises on the next one, and a
\* third result is accumulated on top of both by the same session
C12_Witness ==
    /\ Len(history) = 3
    /\ NonBlank(history[1]) /\ ~history[1].speech_final
    /\ history[2].raised
    /\ NonBlank(history[3]) /\ ~history[3].speech_final
    /\ Len(transcript_parts) = 3
    /\ pa_pc = "waiting" /\ conn_open /\ transcription_complete = "clear"

---------------------------------------------------------------------------
(* Properties of the calls to the external services *)

CallEnded == call_pc \in {"returned", "raised"}
AllFailed == \A j \in 1..Len(attempts) : ~attempts[j].ok

\* C13: MoMGenerator.generate_mom with max_retries = n >= 1 sends the request
\* again and again until the first success and returns that answer at once:
\* no request follows a success, so a first success at attempt k <= n means
\* exactly k attempts (fail, fail, success with n = 3: three attempts and the
\* third answer returned), and every attempt carries the same request.
C13_RetryUntilFirstSuccess ==
    (entry = "MoMGenerator.generate_mom" /\ max_retries >= 1) =>
        /\ Len(attempts) <= max_retries
        /\ \A j \in 1..Len(attempts) : attempts[j].request = attempts[1].request
        /\ \A j \in 1..(Len(attempts) - 1) : ~attempts[j].ok
        /\ (attempts # <<>> /\ attempts[Len(attempts)].ok) =>
               /\ call_pc = "returned"
               /\ outcome = Outcome("response", Len(attempts))
        /\ (call_pc = "loop" /\ attempts # <<>>) => attempt = Len(attempts)

C13_Witness ==
    /\ entry = "MoMGenerator.generate_mom"
    /\ max_retries = 3
    /\ Len(attempts) = 3
    /\ ~attempts[1].ok /\ ~attempts[2].ok /\ attempts[3].ok
    /\ call_pc = "returned"
    /\ outcome = Outcome("response", 3)

\* C14: MoMGenerator.generate_mom with max_retries = n >= 1 and a call that
\* always fails makes exactly n attempts and then lets the failure of the
\* n-th attempt propagate; it never returns without a success.
C14_AlwaysFailingPropagatesLast ==
    (entry = "MoMGenerator.generate_mom" /\ max_retries >= 1) =>
        /\ (CallEnded /\ AllFailed) =>
               /\ call_pc = "raised"
               /\ Len(attempts) = max_retries
               /\ outcome = Outcome("error", max_retries)
        /\ call_pc = "returned" => ~AllFailed
        /\ (call_pc = "loop" /\ AllFailed) => attempt = Len(attempts)

C14_Witness ==
    /\ entry = "MoMGenerator.generate_mom"
    /\ max_retries = 3
    /\ Len(attempts) = 3
    /\ AllFailed
    /\ call_pc = "raised"
    /\ outcome = Outcome("error", 3)

\* C15: every failure of an external transcription or summarization call is
\* retried and, once the attempts are exhausted, surfaced to the caller as a
\* failure: no entry point ends after a single failed attempt of its own
\* making, and none turns the failure into a normal return value.
C15_FailuresRetriedThenSurfaced ==
    (CallEnded /\ attempts # <<>> /\ AllFailed) =>
        /\ call_pc = "raised"
        /\ outcome.what = "error"
        /\ IF entry = "MoMGenerator.generate_mom"
           THEN Len(attempts) = max_retries
           ELSE Len(attempts) > 1

---------------------------------------------------------------------------
(* Properties of live sessions and their end *)

\* The fragments of entry k's own session since the previous finalize.
SessionPending(k) ==
    SelectSeq(SubSeq(history, PrevFinalize(k) + 1, k),
              LAMBDA e : NonBlank(e) /\ e.session = history[k].session)

\* C16: each session started with process_audio begins with an empty
\* accumulator, and no fragment received in an earlier session appears in an
\* utterance emitted by a later session on the same transcriber: every
\* emitted utterance is made of fragments of its own session only.
C16_NoFragmentAcrossSessions ==
    /\ (pa_pc = "waiting" /\ \A k \in 1..Len(history) : history[k].session # session)
          => transcript_parts = <<>>
    /\ \A k \in 1..Len(history) :
          history[k].calls # <<>> =>
              history[k].calls = <<Join(<<" ">>, TextsOf(SessionPending(k)))>>

\* process_audio has returned with everything released: the recorder's
\* recording flag and send function cleared, the connection finished
Released ==
    /\ pa_pc = "done"
    /\ ~audio_on
    /\ send_function = "None"
    /\ ~conn_open

---------------------------------------------------------------------------
(* Properties of the process: credentials and the MoMGenerator global *)

\* The keys operation o needs and does not find.
MissingKeys(o) ==
    {k \in Keys : ~o.env[k] /\
        \/ o.op = "app.main"
        \/ o.op \in {"DeepgramLiveTranscriber", "DeepgramUtils.get_client"}
              /\ k = "DG_API_KEY"
        \/ o.op \in MomFunctions /\ o.tried /\ k = "OPEN_AI_TOKEN"}

\* C18: when a required API key is absent, constructing MoMGenerator or
\* DeepgramLiveTranscriber, calling DeepgramUtils.get_client and starting
\* main() each fail with a missing-credential error, without creating a
\* service client or sending a request.
C18_MissingKeyFailsBeforeAnyClient ==
    \A k \in 1..Len(ops) :
        MissingKeys(ops[k]) # {} =>
            /\ ops[k].outcome \in {"ValueError", "reported"}
            /\ ops[k].clients = <<>>
            /\ ops[k].requests = 0

IsMomOp(o) == o.op \in MomFunctions

\* C19: over any sequence of get_mom_generator, translate_text and
\* generate_mom calls at most one MoMGenerator (one OpenAI client) is
\* constructed successfully and every successful call uses it; a failed
\* construction leaves the global None, and a construction is attempted by
\* exactly the calls that find it None.
C19_OneMoMGeneratorPerProcess ==
    /\ instances <= 1
    /\ mom_generator = instances
    /\ Cardinality({k \in 1..Len(ops) : IsMomOp(ops[k]) /\ ops[k].clients # <<>>}) <= 1
    /\ \A k \in 1..Len(ops) :
          IsMomOp(ops[k]) =>
              /\ ops[k].outcome = "ok" => (ops[k].instance = 1 /\ ops[k].after = 1)
              /\ ops[k].outcome # "ok" => (ops[k].tried /\ ops[k].after = 0)
              /\ ops[k].tried <=>
                     \A j \in 1..(k - 1) : IsMomOp(ops[j]) => ops[j].outcome # "ok"

\* a call fails for want of the key, the next one constructs the generator,
\* the third uses the same one
C19_Witness ==
    /\ Len(ops) = 3
    /\ \A k \in 1..3 : IsMomOp(ops[k])
    /\ ops[1].outcome = "ValueError"
    /\ ops[2].outcome = "ok" /\ ops[2].tried
    /\ ops[3].outcome = "ok" /\ ~ops[3].tried /\ ops[3].instance = ops[2].instance
    /\ instances = 1

---------------------------------------------------------------------------
(* Properties of create_transcript on malformed word lists *)

MalformedAt == {i \in 1..Len(words) : ~HasKeys(words[i])}
FirstMalformed == CHOOSE i \in MalformedAt : \A j \in MalformedAt : i <= j
Elements(seq) == {seq[i] : i \in 1..Len(seq)}

\* C20: when a word record lacks its speaker or its text key,
\* create_transcript fails with an error that names the index of the
\* offending word (counted from 0 or from 1), and returns no transcript.
C20_MalformedWordNamedByIndex ==
    (seg_pc \in {"done", "raised"} /\ MalformedAt # {}) =>
        /\ seg_pc = "raised"
        /\ result = <<>>
        /\ Elements(seg_error.args)
              \cap {ToString(FirstMalformed - 1), ToString(FirstMalformed)} # {}

---------------------------------------------------------------------------
(* Properties of create_transcript: the degenerate input and the rendering *)

\* C21: for a response whose word list is empty, create_transcript emits
\* exactly one turn, for speaker 0 with empty text, and returns
\* "SPEAKER 0:" rather than an empty string.
C21_EmptyInputOneEmptyTurn ==
    (seg_pc = "done" /\ words = <<>>) =>
        /\ Len(lines) = 1
        /\ Turns[1] = [speaker |-> "0", text |-> <<>>]
        /\ result = <<"SPEAKER", " ", "0", ":">>

C21_Witness ==
    /\ seg_pc = "done"
    /\ words = <<>>
    /\ idx = 1
    /\ result # <<>>

\* "SPEAKER <speaker>:<text>"
Rendered(t) == <<"SPEAKER", " ", t.speaker, ":">> \o t.text

\* C22: the returned text is the turns in order, each rendered as
\* "SPEAKER <speaker>:<text>", <text> being the turn's words each preceded
\* by one space (a leading space, then single spaces between words), with
\* exactly one blank line between consecutive turns and no newline after
\* the last turn.
C22_RenderingOfTurns ==
    seg_pc = "done" =>
        /\ result = Join(<<"\n", "\n">>, [k \in 1..Len(Turns) |-> Rendered(Turns[k])])
        /\ \A k \in 1..Len(Turns) :
              /\ WellFormedText(Turns[k].text)
              /\ \A j \in 1..Len(Turns[k].text) : Turns[k].text[j] # "\n"
        /\ result[Len(result)] # "\n"

\* three turns with words in each: two blank lines in the result
C22_Witness ==
    /\ seg_pc = "done"
    /\ Len(words) = 3
    /\ words[1].speaker = 0
    /\ Len(lines) = 3
    /\ Len(SelectSeq(result, LAMBDA c : c = "\n")) = 4

---------------------------------------------------------------------------
(* Properties of the standalone live mode *)

\* the results that count: is_final and text that is not blank
FinalWithText(e) == e.handler = "main.on_message" /\ e.is_final /\ NonBlank(e)

\* C23: in the standalone live mode the final transcript written at shutdown
\* is the space-joined concatenation, in arrival order, of exactly the
\* results with is_final = true and non-blank text; whether the session
\* ends by an interrupt or by an error the cleanup writes it, once, and
\* writes no file when it is empty; nothing is written before shutdown.
C23_FinalTranscriptOfFinalResults ==
    program = "standalone" =>
        LET expected == Join(<<" ">>, TextsOf(SelectSeq(history, FinalWithText)))
        IN  /\ sa_pc = "ended" =>
                  files = (IF expected # <<>> THEN <<expected>> ELSE <<>>)
            /\ sa_pc # "ended" => files = <<>>

\* an interim result, two final results and a blank one, then shutdown
C23_Witness ==
    /\ program = "standalone"
    /\ sa_pc = "ended"
    /\ Len(history) = 3
    /\ ~history[1].is_final /\ NonBlank(history[1])
    /\ FinalWithText(history[2]) /\ FinalWithText(history[3])
    /\ Len(files) = 1
    /\ files[1] = history[2].transcript \o <<" ">> \o history[3].transcript

---------------------------------------------------------------------------
(* Properties of the two create_transcript functions *)

\* C24: the create_transcript of app.py and the one of utils.py agree on
\* every response that carries a word list: the same string for every word
\* list, the empty one included, and the same failure on the same malformed
\* lists; on an absent response (None or empty) the app.py one returns the
\* empty string and the utils.py one fails.
C24_CreateTranscriptsAgree ==
    (utils_out # NotCalled /\ app_out # NotCalled) =>
        IF response.kind = "words"
        THEN app_out = utils_out
        ELSE /\ app_out = Return(<<>>)
             /\ utils_out.status = "raised"

\* both returned the same two-turn transcript
C24_Witness ==
    /\ response.kind = "words"
    /\ utils_out.status = "returned"
    /\ app_out = utils_out
    /\ Len(SelectSeq(app_out.value, LAMBDA c : c = "\n")) = 2


\* C25: the external calls of one "Generate MoM" run are transcription,
\* then translation exactly when the language is not English, then
\* summarization, each at most once, and summarization is requested only
\* when transcription produced a response.
CallsInOrder ==
    /\ app_calls \in {<<>>, <<"transcription">>,
                      <<"transcription", "translation">>,
                      <<"transcription", "summarization">>,
                      <<"transcription", "translation", "summarization">>}
    /\ (Len(app_calls) > 0 /\ app_calls[Len(app_calls)] = "summarization") =>
           ((app_calls = <<"transcription", "translation", "summarization">>)
               <=> (app_language # "English"))
C25_SummarizationOnlyAfterTranscription ==
    /\ CallsInOrder
    /\ (Len(app_calls) > 0 /\ app_calls[Len(app_calls)] = "summarization") =>
           app_response.kind # "None"

\* C26: no external call is made in a session that is not authenticated;
\* the flag starts not true, becomes true only by a login whose trimmed
\* username and password are both "admin", and is never reset.
C26_CallsOnlyWhenAuthenticated ==
    /\ authenticated # "True"
    /\ []((app_calls # <<>> \/ app_pc # "idle") => authenticated = "True")
    /\ [][authenticated = "True" => authenticated' = "True"]_vars
    /\ [][(authenticated # "True" /\ authenticated' = "True") =>
             /\ Strip(login'[1]) = <<"admin">>
             /\ Strip(login'[2]) = <<"admin">>]_vars
C26_Witness ==
    /\ authenticated = "True"
    /\ login = <<<<" ", "admin", " ">>, <<"admin">>>>
    /\ app_calls = <<"transcription", "translation", "summarization">>


\* C27: a stop request is never lost: once stop() has been called, the
\* session that is running or started next has its completion event set,
\* so it terminates without a speech_final result or a second stop().
C27_StopRequestNeverLost ==
    (stop_requested /\ pa_pc = "waiting") => transcription_complete = "set"


\* C28: while recording is True and a send function is registered, the
\* frames of the receiver are fetched and passed on, also after stop()
\* followed by start(f) and after a receiver error: the worker that does
\* so has not exited.
C28_RegisteredSenderIsServed ==
    (recording /\ rec_send_function # "None" /\ stop_pc = "idle") =>
        worker_pc # "exited"

\* C29: once stop() has returned (and start has not been called again),
\* no step puts a chunk on the audio queue or passes one to the send
\* function.
Stopped == stop_pc = "idle" /\ ~recording
C29_NoFrameAfterStopReturned ==
    [][Stopped => (audio_queue' = audio_queue /\ sent' = sent)]_vars


\* C30: for every integer max_retries, MoMGenerator.generate_mom ends by
\* returning the response of a successful request or by raising the failure
\* of its last attempt; it never ends without an attempt and never returns
\* None.
C30_EndsWithResponseOrFailure ==
    (entry = "MoMGenerator.generate_mom" /\ CallEnded) =>
        /\ attempts # <<>>
        /\ outcome \in {Outcome("response", Len(attempts)),
                        Outcome("error", Len(attempts))}
        /\ outcome.what = "response" <=> attempts[Len(attempts)].ok

=============================================================================
